---- MODULE Spec2Model ----
(***************************************************************************)
(* Model of overtrack.apex.collect.apex_game_extractor.ApexGameExtractor:  *)
(* the stream segmenter that slices a frame stream into per-game windows.  *)
(*                                                                         *)
(* Optional values (None / value) are sequences of length 0 / 1.           *)
(* A call that ends in an exception leaves the object in the state the     *)
(* executed statements produced; the exception is recorded in last_call.   *)
(*                                                                         *)
(* Second part: overtrack.valorant.collect.valorant_game.ValorantGame, the *)
(* resolver that builds a game from a window of frames (ResolveSpec).      *)
(***************************************************************************)
EXTENDS Integers, Sequences, FiniteSets, TLC

\* ---------------------------------------------------------------- bounds
MaxCalls == 7

\* Timestamps the producer may stamp frames with (non-decreasing): gaps of
\* exactly 10 and of more than 10 after a game start both occur.
Times == {0, 10, 11}

\* Largest number of rounds a window resolves to.
MaxRounds == 2

\* ------------------------------------------------------ program constants
\* on_frame: `if time_since_game_start > 10`
RESTART_GRACE == 10
\* get_game_in_progress: `len(self.frames) > 2`
MIN_FRAMES == 2
\* _resolve_map / _resolve_game_mode: `threshold=0.75`, in percent
THRESHOLD == 75
\* _resolve_game_mode: `mode_texts[-50:]`
MODE_WINDOW == 50
\* _resolve_map: `> 0.25 * count`, as `4 * second > count`
AMBIGUITY == 4

VARIABLES
    have_current_game,   \* self.have_current_game
    current_key,         \* self.current_key (Optional[str])
    frames,              \* self.frames
    last_seen_frame,     \* self.last_seen_frame (Optional[Frame])
    games,               \* self.games (Optional[List[ApexGame]])
    key_generator,       \* TRUE iff a key generator was injected
    notified,            \* calls received by the registered listeners, in order
    last_call,           \* the most recent public call and how it ended
    calls                \* number of public calls made so far

\* ValorantGame.__init__(frames)
VARIABLES
    window,              \* the frames argument, as runs of equal frames
    v_pc,                \* the pass of __init__ that runs next
    v_game,              \* the fields of the ValorantGame assigned so far
    v_round,             \* the `for r in self.rounds` loop position
    v_log,               \* warnings and errors logged so far
    v_passes,            \* the passes run so far, in order
    v_raised             \* the exception __init__ ended with

svars == <<have_current_game, current_key, frames, last_seen_frame, games,
           key_generator, notified, last_call, calls>>

rvars == <<window, v_pc, v_game, v_round, v_log, v_passes, v_raised>>

vars == <<have_current_game, current_key, frames, last_seen_frame, games,
          key_generator, notified, last_call, calls,
          window, v_pc, v_game, v_round, v_log, v_passes, v_raised>>

None == <<>>
Some(x) == <<x>>

\* A frame of the stream: its position in the stream, its timestamp and
\* whether the 'your_squad' / 'apex_play_menu' fields are present.
Frame(i, t, ys, pm) ==
    [index |-> i, timestamp |-> t, your_squad |-> ys, apex_play_menu |-> pm]

\* ApexGame(frames, key=...): the game built from a window.
ApexGame(fs, key) == [frames |-> fs, key |-> key]

NoGame == [frames |-> <<>>, key |-> None]

\* The injected key generator, a function of the start timestamp.
KeyGen(t) == Some(t)

\* The object as a record, so that the methods are operators on it.
Self ==
    [have_current_game |-> have_current_game,
     current_key       |-> current_key,
     frames            |-> frames,
     last_seen_frame   |-> last_seen_frame,
     games             |-> games,
     key_generator     |-> key_generator,
     notified          |-> notified,
     raised            |-> "none",
     resolver_raised   |-> FALSE]

Started == [type |-> "started", game |-> NoGame, shutdown |-> FALSE]
Complete(game, shutdown) == [type |-> "complete", game |-> game, shutdown |-> shutdown]

\* get_game_in_progress with `>=` in place of `>`: 2 frames make a game.
get_game_in_progress_short(self) ==
    IF self.have_current_game /\ Len(self.frames) >= MIN_FRAMES
    THEN Some(ApexGame(self.frames, self.current_key))
    ELSE None

\* get_game_in_progress(): None unless a game is in progress with > 2 frames.
get_game_in_progress(self) ==
    IF self.have_current_game /\ Len(self.frames) > MIN_FRAMES
    THEN Some(ApexGame(self.frames, self.current_key))
    ELSE None

\* The listeners of on_game_complete are called with (game, shutdown).
notify_complete(self, game, shutdown) ==
    [self EXCEPT !.notified = Append(@, Complete(game, shutdown))]

\* keep_game with the game inserted at the head of the list.
keep_game_prepends(self, game) ==
    IF self.games /= None
    THEN [self EXCEPT !.games = Some(<<game>> \o @[1])]
    ELSE self

\* `if self.games is not None: self.games.append(game)`
keep_game(self, game) ==
    IF self.games /= None
    THEN [self EXCEPT !.games = Some(Append(@[1], game))]
    ELSE self

\* clear_game without `self.current_key = None`.
clear_game_keeps_key(self) ==
    [self EXCEPT !.frames = <<>>, !.have_current_game = FALSE]

\* The tail of _finish_game: frames, have_current_game, current_key reset.
clear_game(self) ==
    [self EXCEPT !.frames = <<>>, !.have_current_game = FALSE, !.current_key = None]

\* _finish_game with the construction of the game wrapped in a try/except
\* that logs the resolver's error and drops the window.
_finish_game_swallows(self, shutdown, resolves) ==
    LET game == get_game_in_progress(self)
    IN  IF game = None
        THEN [self EXCEPT !.raised = "AssertionError"]
        ELSE IF ~resolves
        THEN clear_game([self EXCEPT !.resolver_raised = TRUE])
        ELSE clear_game(keep_game(notify_complete(self, game[1], shutdown), game[1]))

\* _finish_game(shutdown).  The assert statement is executed (the interpreter
\* runs without -O).  resolves says whether ApexGame(...) can be built from
\* the window or raises.
_finish_game(self, shutdown, resolves) ==
    LET game == get_game_in_progress(self)
    IN  IF game = None
        THEN [self EXCEPT !.raised = "AssertionError"]
        ELSE IF ~resolves
        THEN [self EXCEPT !.raised = "InvalidGame", !.resolver_raised = TRUE]
        ELSE clear_game(keep_game(notify_complete(self, game[1], shutdown), game[1]))

\* The shutdown argument finish() passes to _finish_game (the default).
finish_shutdown == FALSE

\* finish()
finish(self, resolves) ==
    IF self.have_current_game
    THEN _finish_game(self, finish_shutdown, resolves)
    ELSE self

\* frame.timestamp - self.frames[0].timestamp if self.have_current_game else -1
time_since_game_start(self, frame) ==
    IF self.have_current_game
    THEN frame.timestamp - self.frames[1].timestamp
    ELSE -1

\* start_game without the `if not self.have_current_game` guard.
start_game_unguarded(self, frame) ==
    [self EXCEPT !.have_current_game = TRUE,
                 !.current_key = IF self.key_generator
                                 THEN KeyGen(frame.timestamp) ELSE None,
                 !.notified = Append(@, Started)]

\* start_game with the key assignment moved out of the guard: every start
\* marker assigns a key.
start_game_rekeys(self, frame) ==
    LET s1 == [self EXCEPT !.current_key = IF self.key_generator
                                           THEN KeyGen(frame.timestamp) ELSE None]
    IN  IF ~self.have_current_game
        THEN [s1 EXCEPT !.have_current_game = TRUE,
                        !.notified = Append(@, Started)]
        ELSE s1

\* The block under `if not self.have_current_game` of on_frame.
start_game(self, frame) ==
    IF ~self.have_current_game
    THEN [self EXCEPT !.have_current_game = TRUE,
                      !.current_key = IF self.key_generator
                                      THEN KeyGen(frame.timestamp) ELSE None,
                      !.notified = Append(@, Started)]
    ELSE self

\* on_your_squad with `>=` in place of `>`: a start marker exactly the grace
\* period after the first frame restarts the game.
on_your_squad_inclusive(self, frame, resolves) ==
    LET s1 == IF time_since_game_start(self, frame) >= RESTART_GRACE
              THEN _finish_game(self, FALSE, resolves)
              ELSE self
    IN  IF s1.raised /= "none" THEN s1 ELSE start_game(s1, frame)

\* The `if 'your_squad' in frame` block of on_frame.
on_your_squad(self, frame, resolves) ==
    LET s1 == IF time_since_game_start(self, frame) > RESTART_GRACE
              THEN _finish_game(self, FALSE, resolves)
              ELSE self
    IN  IF s1.raised /= "none" THEN s1 ELSE start_game(s1, frame)

\* The `if 'apex_play_menu' in frame and self.have_current_game` block.
on_play_menu(self, frame, resolves) ==
    IF frame.apex_play_menu /\ self.have_current_game
    THEN _finish_game(self, FALSE, resolves)
    ELSE self

\* `if self.have_current_game: self.frames.append(frame)`
append_frame(self, frame) ==
    IF self.have_current_game
    THEN [self EXCEPT !.frames = Append(@, frame)]
    ELSE self

\* on_frame(frame)
on_frame(self, frame, resolves) ==
    LET s0 == [self EXCEPT !.last_seen_frame = Some(frame)]
    IN  IF s0.have_current_game /\ s0.frames = <<>>
        THEN [s0 EXCEPT !.raised = "IndexError"]
        ELSE LET s1 == IF frame.your_squad
                       THEN on_your_squad(s0, frame, resolves) ELSE s0
             IN  IF s1.raised /= "none" THEN s1
                 ELSE LET s2 == on_play_menu(s1, frame, resolves)
                      IN  IF s2.raised /= "none" THEN s2
                          ELSE append_frame(s2, frame)

\* No ValorantGame is under construction.
ResolverIdle ==
    /\ window = <<>>
    /\ v_pc = "idle"
    /\ v_game = <<>>
    /\ v_round = 0
    /\ v_log = <<>>
    /\ v_passes = <<>>
    /\ v_raised = "none"

\* The state a call leaves behind, and the record of the call.
Becomes(r, op, frame) ==
    /\ UNCHANGED rvars
    /\ have_current_game' = r.have_current_game
    /\ current_key' = r.current_key
    /\ frames' = r.frames
    /\ last_seen_frame' = r.last_seen_frame
    /\ games' = r.games
    /\ notified' = r.notified
    /\ key_generator' = key_generator
    /\ calls' = calls + 1
    /\ last_call' = [op |-> op, raised |-> r.raised, frame |-> frame,
                     pre_have |-> have_current_game, pre_frames |-> frames,
                     pre_key |-> current_key, pre_notified |-> Len(notified),
                     pre_games |-> games, resolver_raised |-> r.resolver_raised,
                     clean |-> last_call.clean /\ last_call.raised = "none"]

\* The timestamp of the newest frame of the stream (0 before the first).
Now == IF last_seen_frame = None THEN 0 ELSE last_seen_frame[1].timestamp

\* The number of frames received so far.
Received == IF last_seen_frame = None THEN 0 ELSE last_seen_frame[1].index

\* The extractor after construction, for the given constructor arguments.
Constructed(keep_games, with_key_generator) ==
    /\ have_current_game = FALSE
    /\ current_key = None
    /\ frames = <<>>
    /\ last_seen_frame = None
    /\ games = IF keep_games THEN Some(<<>>) ELSE None
    /\ key_generator = with_key_generator
    /\ notified = <<>>
    /\ calls = 0
    /\ last_call = [op |-> "init", raised |-> "none", frame |-> None,
                    pre_have |-> FALSE, pre_frames |-> <<>>,
                    pre_key |-> None, pre_notified |-> 0,
                    pre_games |-> games, resolver_raised |-> FALSE,
                    clean |-> TRUE]

Init ==
    /\ \E keep_games \in BOOLEAN, with_key_generator \in BOOLEAN :
          Constructed(keep_games, with_key_generator)
    /\ ResolverIdle

OnFrame ==
    /\ calls < MaxCalls
    /\ \E t \in Times, ys \in BOOLEAN, pm \in BOOLEAN, resolves \in BOOLEAN :
          /\ t >= Now
          /\ LET frame == Frame(Received + 1, t, ys, pm)
             IN  Becomes(on_frame(Self, frame, resolves), "on_frame", Some(frame))

Finish ==
    /\ calls < MaxCalls
    /\ \E resolves \in BOOLEAN :
          Becomes(finish(Self, resolves), "finish", None)

Next == OnFrame \/ Finish

Spec == Init /\ [][Next]_vars

\* ================================================================ resolver
\* data.maps and data.modes: the vocabularies of canonical names.
maps == {"Ascent", "Bind", "Haven"}
modes == {"unrated", "competitive", "custom"}

\* A recognised text, by the vocabulary entry it is most similar to and the
\* similarity ratio, in percent.
Text(closest, score) == [closest |-> closest, score |-> score]

\* textops.best_match(text, options, values, threshold): the value of the
\* most similar option when the ratio reaches the threshold, else None.
best_match(text, vocabulary, threshold) ==
    IF text.closest \in vocabulary /\ text.score >= threshold
    THEN Some(text.closest)
    ELSE None

\* frame.valorant.agent_select / frame.valorant.postgame
Screen(map, game_mode) == [map |-> map, game_mode |-> game_mode]

\* The frames a window is made of.
FrameKinds == {"AU", "BC", "xU", "Ax", "pg", "none"}

ValorantFrame(kind, t) ==
    [timestamp |-> t,
     agent_select |->
        CASE kind = "AU" -> Some(Screen(Some(Text("Ascent", 100)), Some(Text("unrated", 100))))
          [] kind = "BC" -> Some(Screen(Some(Text("Bind", 100)), Some(Text("competitive", 100))))
          [] kind = "xU" -> Some(Screen(Some(Text("Ascent", 74)), Some(Text("unrated", 75))))
          [] kind = "pg" -> Some(Screen(None, None))
          [] OTHER -> None,
     postgame |->
        CASE kind = "Ax" -> Some(Screen(Some(Text("Ascent", 75)), Some(Text("competitive", 74))))
          [] kind = "pg" -> Some(Screen(Some(Text("Haven", 100)), Some(Text("custom", 100))))
          [] OTHER -> None]

\* The lengths of the runs of a window.
RunLens == {0, 2, 3, 7, 8, 50}
TailLens == {0, 3}
\* The frames the last run of a window is made of.
TailKinds == {"pg", "xU", "none"}

Run(kind, n) == [kind |-> kind, n |-> n]

RunLength(runs) ==
    IF runs = <<>> THEN 0
    ELSE runs[1].n + (IF Len(runs) > 1 THEN runs[2].n ELSE 0)
                   + (IF Len(runs) > 2 THEN runs[3].n ELSE 0)

\* The list of frames of a window of runs; frame i is stamped i.
Frames(runs) ==
    [i \in 1..RunLength(runs) |->
        ValorantFrame(
            IF i <= runs[1].n THEN runs[1].kind
            ELSE IF i <= runs[1].n + runs[2].n THEN runs[2].kind
            ELSE runs[3].kind,
            i)]

\* The texts _resolve_map collects: agent_select.map, elif postgame.map.
map_text(f) ==
    IF f.agent_select /= None /\ f.agent_select[1].map /= None
    THEN f.agent_select[1].map
    ELSE IF f.postgame /= None /\ f.postgame[1].map /= None
    THEN f.postgame[1].map
    ELSE None

\* The texts _resolve_game_mode collects.
mode_text(f) ==
    IF f.agent_select /= None /\ f.agent_select[1].game_mode /= None
    THEN f.agent_select[1].game_mode
    ELSE IF f.postgame /= None /\ f.postgame[1].game_mode /= None
    THEN f.postgame[1].game_mode
    ELSE None

\* [text(f) for f in fs if text(f)], for text = map_text or mode_text.
\* The loop over frames lo..hi, split in halves to keep the nesting shallow.
RECURSIVE collect_texts(_, _, _, _)
collect_texts(fs, is_map, lo, hi) ==
    IF lo > hi THEN <<>>
    ELSE IF lo = hi
    THEN (IF is_map THEN map_text(fs[lo]) ELSE mode_text(fs[lo]))
    ELSE LET mid == (lo + hi) \div 2
         IN  collect_texts(fs, is_map, lo, mid)
                \o collect_texts(fs, is_map, mid + 1, hi)

map_texts(fs) == collect_texts(fs, TRUE, 1, Len(fs))

\* last_texts without the slice: every text is kept.
last_texts_all(texts) == texts

\* `mode_texts[-50:]`
last_texts(texts) ==
    IF Len(texts) > MODE_WINDOW
    THEN SubSeq(texts, Len(texts) - MODE_WINDOW + 1, Len(texts))
    ELSE texts

mode_texts(fs) == last_texts(collect_texts(fs, FALSE, 1, Len(fs)))

\* collections.Counter: the entries in insertion order.
\* counter[value] += 1
counter_add(counter, value) ==
    IF \E i \in DOMAIN counter : counter[i].value = value
    THEN LET i == CHOOSE i \in DOMAIN counter : counter[i].value = value
         IN  [counter EXCEPT ![i].count = @ + 1]
    ELSE Append(counter, [value |-> value, count |-> 1])

\* The counting loop of _resolve_map / _resolve_game_mode over the texts
\* lo..hi, in order, split in halves to keep the nesting shallow (the test
\* of Len(counter) has the counter evaluated before the loop goes on).
RECURSIVE count_loop(_, _, _, _, _)
count_loop(texts, vocabulary, counter, lo, hi) ==
    IF lo > hi \/ Len(counter) < 0 THEN counter
    ELSE IF lo = hi
    THEN LET m == best_match(texts[lo], vocabulary, THRESHOLD)
         IN  IF m /= None THEN counter_add(counter, m[1]) ELSE counter
    ELSE LET mid == (lo + hi) \div 2
         IN  count_loop(texts, vocabulary,
                        count_loop(texts, vocabulary, counter, lo, mid),
                        mid + 1, hi)

count_matches(texts, vocabulary) ==
    count_loop(texts, vocabulary, <<>>, 1, Len(texts))

\* sorted_insert ahead of the entries of equal count (an unstable sort).
RECURSIVE sorted_insert_before_equals(_, _)
sorted_insert_before_equals(sorted, e) ==
    IF sorted = <<>> THEN <<e>>
    ELSE IF sorted[1].count > e.count
    THEN <<sorted[1]>> \o sorted_insert_before_equals(Tail(sorted), e)
    ELSE <<e>> \o sorted

\* Insertion of an entry into a list sorted by descending count, after the
\* entries of equal count (the sort is stable).
RECURSIVE sorted_insert(_, _)
sorted_insert(sorted, e) ==
    IF sorted = <<>> THEN <<e>>
    ELSE IF sorted[1].count >= e.count
    THEN <<sorted[1]>> \o sorted_insert(Tail(sorted), e)
    ELSE <<e>> \o sorted

RECURSIVE sorted_by_count(_, _)
sorted_by_count(counter, i) ==
    IF i = 0 THEN <<>>
    ELSE sorted_insert(sorted_by_count(counter, i - 1), counter[i])

\* Counter.most_common with the order reversed: least common first.
most_common_ascending(counter, n) ==
    LET sorted == sorted_by_count(counter, Len(counter))
        rev == [i \in DOMAIN sorted |-> sorted[Len(sorted) + 1 - i]]
    IN  SubSeq(rev, 1, IF n < Len(rev) THEN n ELSE Len(rev))

\* Counter.most_common(n)
most_common(counter, n) ==
    LET sorted == sorted_by_count(counter, Len(counter))
    IN  SubSeq(sorted, 1, IF n < Len(sorted) THEN n ELSE Len(sorted))

LogRecord(pass, msg) == [pass |-> pass, msg |-> msg]

\* multiple_maps with `>=` in place of `>`.
multiple_maps_inclusive(counter, count) ==
    /\ Len(counter) > 1
    /\ AMBIGUITY * most_common(counter, 2)[2].count >= count

\* len(mapcounter) > 1 and mapcounter.most_common(2)[1][1] > 0.25 * count
multiple_maps(counter, count) ==
    /\ Len(counter) > 1
    /\ AMBIGUITY * most_common(counter, 2)[2].count > count

\* The result of a resolution: the exception raised or the value returned,
\* and what was logged.
Resolved(value, log) == [raised |-> FALSE, value |-> value, log |-> log]
Raised == [raised |-> TRUE, value |-> None, log |-> <<>>]

\* _resolve_map returning None for an empty counter instead of raising.
_resolve_map_returns_none(fs) ==
    LET mapcounter == count_matches(map_texts(fs), maps)
    IN  IF Len(mapcounter) = 0 THEN Resolved(None, <<>>)
        ELSE LET best == most_common(mapcounter, 1)[1]
             IN  Resolved(Some(best.value),
                          IF multiple_maps(mapcounter, best.count)
                          THEN <<LogRecord("map", "Got multiple matching maps")>>
                          ELSE <<>>)

\* _resolve_map(frames)
_resolve_map(fs) ==
    LET mapcounter == count_matches(map_texts(fs), maps)
    IN  IF Len(mapcounter) = 0 THEN Raised
        ELSE LET best == most_common(mapcounter, 1)[1]
             IN  Resolved(Some(best.value),
                          IF multiple_maps(mapcounter, best.count)
                          THEN <<LogRecord("map", "Got multiple matching maps")>>
                          ELSE <<>>)

\* _resolve_game_mode with the check of the runner-up that _resolve_map has.
_resolve_game_mode_warns(fs) ==
    LET modecounter == count_matches(mode_texts(fs), modes)
    IN  IF Len(modecounter) = 0 THEN Raised
        ELSE LET best == most_common(modecounter, 1)[1]
             IN  Resolved(Some(best.value),
                          IF multiple_maps(modecounter, best.count)
                          THEN <<LogRecord("mode", "Got multiple matching modes")>>
                          ELSE <<>>)

\* _resolve_game_mode(frames)
_resolve_game_mode(fs) ==
    LET modecounter == count_matches(mode_texts(fs), modes)
    IN  IF Len(modecounter) = 0 THEN Raised
        ELSE Resolved(Some(most_common(modecounter, 1)[1].value), <<>>)

\* A round as Rounds resolves it; kills are attached later.
Round(index, start, end, won) ==
    [index |-> index, start |-> start, end |-> end, won |-> won, kills |-> None]

\* Rounds(frames, debug) with n rounds, round i (from 0) lasting from
\* 10 i + 1 to 10 i + 9, the last round's result being lastwon.
RoundList(n, lastwon) ==
    [i \in 1..n |->
        Round(i - 1, 10 * (i - 1) + 1, 10 * (i - 1) + 9,
              IF i = n THEN lastwon ELSE Some(TRUE))]

\* Rounds.final_score
Scores == {None, Some(<<13, 7>>), Some(<<7, 13>>), Some(<<6, 6>>)}

\* Round.won
Won == {None, Some(TRUE), Some(FALSE)}

\* The results of the last round and the final scores that Rounds yields.
RoundOutcomes ==
    {<<w, sc>> \in Won \X Scores :
        w /= None => sc \in {None, Some(<<7, 13>>)}}

\* Teams(frames, rounds, debug): the roster, performance not yet resolved.
Teams(fs, rounds) == [players |-> {"p1", "p2"}, performance |-> None]

\* Kills(frames, teams, r.index, timestamp, r.start, r.end)
Kills(fs, teams, round_index, timestamp, start, end) ==
    <<[round_index |-> round_index, timestamp |-> start + 1,
       killer |-> "p1", victim |-> "p2"]>>

RECURSIVE kill_count(_, _)
kill_count(rounds, i) ==
    IF i = 0 THEN 0
    ELSE kill_count(rounds, i - 1)
            + (IF rounds[i].kills = None THEN 0 ELSE Len(rounds[i].kills[1]))

\* Teams.resolve_performance(rounds): aggregates over the kills of the rounds.
resolve_performance(teams, rounds) ==
    [teams EXCEPT !.performance = Some(kill_count(rounds, Len(rounds)))]

\* duration as the span of the frames of the window.
duration_of_frames(rounds, fs) == fs[Len(fs)].timestamp - fs[1].timestamp

\* self.duration = self.rounds[-1].end
duration(rounds, fs) == rounds[Len(rounds)].end

\* The order of the passes of __init__ with performance ahead of the kills.
pass_order_performance_first ==
    <<"map", "mode", "rounds", "teams", "performance", "kills", "won", "done">>

\* The order of the passes of __init__.
pass_order ==
    <<"map", "mode", "rounds", "teams", "kills", "performance", "won", "done">>

\* The pass that follows pass p.
next_pass(p) ==
    LET i == CHOOSE i \in DOMAIN pass_order : pass_order[i] = p
    IN  pass_order[i + 1]

\* The fields of a ValorantGame before __init__ assigned them.
NewGame ==
    [timestamp |-> None, map |-> None, game_mode |-> None, rounds |-> None,
     final_score |-> None, duration |-> None, teams |-> None, won |-> None,
     season_mode_id |-> None, frames_count |-> None]

\* resolve_won with `>=` in place of `>`.
resolve_won_inclusive(rounds, score) ==
    IF rounds[Len(rounds)].won /= None THEN rounds[Len(rounds)].won
    ELSE IF score /= None THEN Some(score[1][1] >= score[1][2])
    ELSE None

\* The if/elif/else that sets self.won.
resolve_won(rounds, score) ==
    IF rounds[Len(rounds)].won /= None THEN rounds[Len(rounds)].won
    ELSE IF score /= None THEN Some(score[1][1] > score[1][2])
    ELSE None

\* The if/elif/else that sets self.season_mode_id.
season_mode_id(game_mode) ==
    IF game_mode = "custom" THEN -1
    ELSE IF game_mode = "unrated" THEN 0
    ELSE 1

\* A pass raised: __init__ ends with the exception.
Raise(exception) ==
    /\ v_raised' = exception
    /\ v_pc' = "raised"

\* self.map = self._resolve_map(frames)
ResolveMap ==
    /\ v_pc = "map"
    /\ v_passes' = Append(v_passes, "map")
    /\ LET r == _resolve_map(Frames(window))
       IN  IF r.raised
           THEN Raise("NoMap") /\ UNCHANGED <<v_game, v_log>>
           ELSE /\ v_game' = [v_game EXCEPT !.map = r.value]
                /\ v_log' = v_log \o r.log
                /\ v_pc' = next_pass("map")
                /\ UNCHANGED v_raised
    /\ UNCHANGED <<window, v_round>>
    /\ UNCHANGED svars

\* self.game_mode = self._resolve_game_mode(frames)
ResolveGameMode ==
    /\ v_pc = "mode"
    /\ v_passes' = Append(v_passes, "mode")
    /\ LET r == _resolve_game_mode(Frames(window))
       IN  IF r.raised
           THEN Raise("NoMode") /\ UNCHANGED <<v_game, v_log>>
           ELSE /\ v_game' = [v_game EXCEPT !.game_mode = r.value]
                /\ v_log' = v_log \o r.log
                /\ v_pc' = next_pass("mode")
                /\ UNCHANGED v_raised
    /\ UNCHANGED <<window, v_round>>
    /\ UNCHANGED svars

\* self.rounds = Rounds(frames, debug); self.duration = self.rounds[-1].end
ResolveRounds ==
    /\ v_pc = "rounds"
    /\ v_passes' = Append(v_passes, "rounds")
    /\ \E n \in 0..MaxRounds, outcome \in RoundOutcomes :
          LET lastwon == outcome[1]
              score == outcome[2]
          IN
          IF n = 0
          THEN /\ lastwon = None /\ score = None
               /\ Raise("NoRounds") /\ UNCHANGED v_game
          ELSE /\ v_game' = [v_game EXCEPT
                                !.rounds = Some(RoundList(n, lastwon)),
                                !.final_score = score,
                                !.duration = Some(duration(RoundList(n, lastwon),
                                                           Frames(window)))]
               /\ v_pc' = next_pass("rounds")
               /\ UNCHANGED v_raised
    /\ UNCHANGED <<window, v_round, v_log>>
    /\ UNCHANGED svars

\* self.teams = Teams(frames, self.rounds, debug)
ResolveTeams ==
    /\ v_pc = "teams"
    /\ v_passes' = Append(v_passes, "teams")
    /\ v_game' = [v_game EXCEPT !.teams = Some(Teams(Frames(window), v_game.rounds[1]))]
    /\ v_pc' = next_pass("teams")
    /\ v_round' = 1
    /\ UNCHANGED <<window, v_log, v_raised>>
    /\ UNCHANGED svars

\* One iteration of `for r in self.rounds: r.kills = Kills(...)`.
ResolveKills ==
    /\ v_pc = "kills"
    /\ v_round <= Len(v_game.rounds[1])
    /\ v_passes' = Append(v_passes, "kills")
    /\ LET r == v_game.rounds[1][v_round]
           kills == Kills(Frames(window), v_game.teams[1], r.index,
                          v_game.timestamp[1], r.start, r.end)
       IN  v_game' = [v_game EXCEPT !.rounds[1][v_round].kills = Some(kills)]
    /\ v_round' = v_round + 1
    /\ v_pc' = IF v_round = Len(v_game.rounds[1]) THEN next_pass("kills") ELSE "kills"
    /\ UNCHANGED <<window, v_log, v_raised>>
    /\ UNCHANGED svars

\* self.teams.resolve_performance(self.rounds)
ResolvePerformance ==
    /\ v_pc = "performance"
    /\ v_passes' = Append(v_passes, "performance")
    /\ v_game' = [v_game EXCEPT
                     !.teams = Some(resolve_performance(v_game.teams[1], v_game.rounds[1]))]
    /\ v_pc' = next_pass("performance")
    /\ UNCHANGED <<window, v_round, v_log, v_raised>>
    /\ UNCHANGED svars

\* The rest of __init__: won, season_mode_id, frames_count.
ResolveWon ==
    /\ v_pc = "won"
    /\ v_game' = [v_game EXCEPT
                     !.won = resolve_won(v_game.rounds[1], v_game.final_score),
                     !.season_mode_id = Some(season_mode_id(v_game.game_mode[1])),
                     !.frames_count = Some(Len(Frames(window)))]
    /\ v_pc' = next_pass("won")
    /\ UNCHANGED <<window, v_round, v_log, v_passes, v_raised>>
    /\ UNCHANGED svars

\* ValorantGame(frames) is entered with a window of three runs of frames;
\* self.timestamp = frames[0].timestamp.
ResolveInit ==
    /\ Constructed(FALSE, FALSE)
    /\ calls = 0
    /\ last_call = [op |-> "init", raised |-> "none", frame |-> None,
                    pre_have |-> FALSE, pre_frames |-> <<>>,
                    pre_key |-> None, pre_notified |-> 0,
                    pre_games |-> None, resolver_raised |-> FALSE,
                    clean |-> TRUE]
    /\ \E k1 \in FrameKinds, k2 \in FrameKinds, k3 \in TailKinds,
          n1 \in RunLens, n2 \in RunLens, n3 \in TailLens :
          /\ n1 = 0 => k1 = "none"
          /\ n2 = 0 => k2 = "none"
          /\ n3 = 0 => k3 = "none"
          /\ n1 + n2 + n3 > 0
          /\ window = <<Run(k1, n1), Run(k2, n2), Run(k3, n3)>>
    /\ v_pc = "map"
    /\ v_game = [NewGame EXCEPT !.timestamp = Some(Frames(window)[1].timestamp)]
    /\ v_round = 0
    /\ v_log = <<>>
    /\ v_passes = <<>>
    /\ v_raised = "none"

ResolveNext ==
    \/ ResolveMap
    \/ ResolveGameMode
    \/ ResolveRounds
    \/ ResolveTeams
    \/ ResolveKills
    \/ ResolvePerformance
    \/ ResolveWon

ResolveSpec == ResolveInit /\ [][ResolveNext]_vars

\* ------------------------------------------------------------ observations
\* The listener calls made during the most recent call.
NewNotified == SubSeq(notified, last_call.pre_notified + 1, Len(notified))

IsComplete(n) == n.type = "complete"
IsStarted(n) == n.type = "started"

CompletedIn(seq) == SelectSeq(seq, IsComplete)
StartedIn(seq) == SelectSeq(seq, IsStarted)

\* The most recent call raised nothing, or only the resolver's own error.
NoSegmenterError == last_call.raised \in {"none", "InvalidGame"}

\* The most recent call is the first to meet the buffered window with an
\* end of its match: no earlier call ended in an exception.
FirstFault == last_call.clean

\* The key a game started by a frame stamped t is to carry.
ExpectedKey(t) == IF key_generator THEN KeyGen(t) ELSE None

\* The most recent call was on_frame with a start marker that arrived more
\* than the grace period after the first buffered frame of a game in progress.
AnomalousRestart ==
    /\ last_call.op = "on_frame"
    /\ last_call.pre_have
    /\ last_call.pre_frames /= <<>>
    /\ last_call.frame[1].your_squad
    /\ last_call.frame[1].timestamp - last_call.pre_frames[1].timestamp > RESTART_GRACE

\* The most recent call was on_frame with an end marker, a game in progress.
EndMarkerInProgress ==
    /\ last_call.op = "on_frame"
    /\ last_call.pre_have
    /\ last_call.frame[1].apex_play_menu

\* ------------------------------------------------------------------ claims

\* C1: a match finalized by finish() is delivered to the 'match complete'
\* listeners with shutdown = TRUE; one completed by an end marker or by an
\* anomalous restart (inside on_frame) is delivered with shutdown = FALSE.
C1_ShutdownFlagTellsFinish ==
    \A i \in DOMAIN NewNotified :
        IsComplete(NewNotified[i]) =>
            (NewNotified[i].shutdown <=> (last_call.op = "finish"))

\* C2: finish() called while a match is in progress (start marker seen, no
\* end marker since) emits exactly one match, however few frames are
\* buffered, and leaves the segmenter not in progress.
C2_FinishEmitsExactlyOne ==
    (/\ last_call.op = "finish"
     /\ last_call.pre_have
     /\ last_call.pre_frames /= <<>>
     /\ FirstFault
     /\ last_call.raised /= "InvalidGame")
    => /\ Len(CompletedIn(NewNotified)) = 1
       /\ ~have_current_game

\* C3: the assertion of _finish_game never fails: finalize is never invoked
\* with 2 or fewer buffered frames.
C3_AssertionNeverFails == last_call.raised /= "AssertionError"

\* C4: no match built from a window of 2 or fewer frames is delivered to the
\* 'match complete' listeners or added to the kept games list.
C4_NoShortWindowEmitted ==
    /\ \A i \in DOMAIN notified :
          IsComplete(notified[i]) => Len(notified[i].game.frames) > MIN_FRAMES
    /\ games /= None =>
          \A i \in DOMAIN games[1] : Len(games[1][i].frames) > MIN_FRAMES

\* C4 witness: a match of exactly 3 frames was delivered and kept.
C4_Witness ==
    /\ games /= None
    /\ \E i \in DOMAIN games[1] : Len(games[1][i].frames) = MIN_FRAMES + 1
    /\ \E i \in DOMAIN notified :
          IsComplete(notified[i]) /\ Len(notified[i].game.frames) = MIN_FRAMES + 1

\* C5: a session whose buffer holds 2 or fewer frames when its end is reached
\* (finish(), an end marker, or an anomalous restart) is silently dropped: no
\* match is emitted, no error is raised, and the session is no longer in
\* progress (after a restart the buffer holds only the new session).
C5_ShortSessionSilentlyDropped ==
    (/\ last_call.pre_have
     /\ Len(last_call.pre_frames) <= MIN_FRAMES
     /\ last_call.pre_frames /= <<>>
     /\ FirstFault
     /\ last_call.op = "finish" \/ EndMarkerInProgress \/ AnomalousRestart)
    => /\ last_call.raised = "none"
       /\ CompletedIn(NewNotified) = <<>>
       /\ \/ ~have_current_game /\ frames = <<>>
          \/ AnomalousRestart /\ frames = last_call.frame

\* C6: 'match started' is notified only when no match is in progress, so
\* started and completed notifications alternate, and the number of started
\* minus the number of completed is 1 when a match is in progress, else 0.
C6_AtMostOneOpenMatch ==
    /\ \A i \in DOMAIN notified : IsStarted(notified[i]) <=> (i % 2 = 1)
    /\ Len(StartedIn(notified)) - Len(CompletedIn(notified))
          = IF have_current_game THEN 1 ELSE 0

\* C6 witness: a second match was started after the first was completed, by
\* one on_frame call (an anomalous restart).
C6_Witness ==
    /\ AnomalousRestart
    /\ Len(StartedIn(notified)) = 2
    /\ Len(CompletedIn(notified)) = 1
    /\ have_current_game

\* C7: an anomalous restart, within the one on_frame call, first emits the
\* current match, then starts a new one (key from the triggering frame's
\* timestamp, 'match started' notified); the triggering frame is the first
\* frame of the new window and not part of the emitted one.
C7_AnomalousRestartEmitsThenStarts ==
    (AnomalousRestart /\ FirstFault /\ last_call.raised /= "InvalidGame")
    => /\ NewNotified =
             <<Complete(ApexGame(last_call.pre_frames, last_call.pre_key), FALSE),
               Started>>
       /\ have_current_game
       /\ current_key = ExpectedKey(last_call.frame[1].timestamp)
       /\ frames = last_call.frame

\* C8: an end marker arriving while a match is in progress finalizes and
\* emits the current match in that call and discards the buffer; the end
\* marker frame is neither in the emitted window nor buffered afterwards.
C8_EndMarkerEmitsAndDiscards ==
    (EndMarkerInProgress /\ FirstFault /\ ~AnomalousRestart
        /\ last_call.raised /= "InvalidGame")
    => /\ NewNotified =
             <<Complete(ApexGame(last_call.pre_frames, last_call.pre_key), FALSE)>>
       /\ frames = <<>>
       /\ ~have_current_game

\* C9: whenever no match is in progress the buffer is empty and the key is
\* None; in particular a call whose last notification is 'match complete'
\* leaves have_current_game false, the buffer empty and the key cleared.
C9_IdleMeansCleared ==
    /\ ~have_current_game => (frames = <<>> /\ current_key = None)
    /\ (NewNotified /= <<>> /\ IsComplete(NewNotified[Len(NewNotified)]))
          => (~have_current_game /\ frames = <<>> /\ current_key = None)

\* C9 witness: a keyed match of several frames was just completed.
C9_Witness ==
    /\ NewNotified /= <<>>
    /\ IsComplete(NewNotified[Len(NewNotified)])
    /\ NewNotified[Len(NewNotified)].game.key /= None
    /\ last_call.pre_frames /= <<>>
    /\ ~have_current_game

\* C10: the key is assigned once, when a match starts, as the key generator
\* applied to the start frame's timestamp (None without a generator); later
\* frames of the same match leave it unchanged, and every emitted match
\* carries the key assigned at its own start.
C10_KeyAssignedAtStart ==
    /\ StartedIn(NewNotified) /= <<>> =>
          current_key = ExpectedKey(last_call.frame[1].timestamp)
    /\ (have_current_game /\ frames /= <<>>) =>
          (frames[1].your_squad /\ current_key = ExpectedKey(frames[1].timestamp))
    /\ (last_call.pre_have /\ NewNotified = <<>>) =>
          current_key = last_call.pre_key
    /\ \A i \in DOMAIN notified :
          IsComplete(notified[i]) =>
             /\ notified[i].game.frames[1].your_squad
             /\ notified[i].game.key =
                   ExpectedKey(notified[i].game.frames[1].timestamp)

\* C10 witness: an emitted match keyed by its start timestamp 0 although a
\* later frame of its window, stamped 10, carried a start marker too.
C10_Witness ==
    \E i \in DOMAIN notified :
        /\ IsComplete(notified[i])
        /\ notified[i].game.key = KeyGen(0)
        /\ \E j \in DOMAIN notified[i].game.frames :
              /\ j > 1
              /\ notified[i].game.frames[j].your_squad
              /\ notified[i].game.frames[j].timestamp = RESTART_GRACE

\* C11: when the resolver raises while _finish_game builds the game, the
\* error reaches the caller of on_frame / finish and that game is not
\* emitted: no 'match complete' listener is called for it and the kept games
\* list is unchanged.
C11_ResolverErrorPropagates ==
    /\ last_call.resolver_raised <=> (last_call.raised = "InvalidGame")
    /\ last_call.resolver_raised =>
          /\ CompletedIn(NewNotified) = <<>>
          /\ games = last_call.pre_games

\* C11 witness: the resolver raised on a window of more than 2 frames at an
\* end marker, with the games list kept.
C11_Witness ==
    /\ last_call.resolver_raised
    /\ EndMarkerInProgress
    /\ Len(last_call.pre_frames) > MIN_FRAMES
    /\ games /= None

\* C12: once the resolver's failure has surfaced to the caller the segmenter
\* no longer holds the failed window: the buffer is empty and no match is in
\* progress, so later frames are never appended to the failed window.
C12_FailedWindowDiscarded ==
    last_call.raised = "InvalidGame" =>
        (frames = <<>> /\ ~have_current_game)

\* ------------------------------------------------- resolver observations
\* The texts of the window that reach the vocabulary at the threshold.
Qualifying(texts, vocabulary) ==
    {i \in DOMAIN texts :
        texts[i].closest \in vocabulary /\ texts[i].score >= THRESHOLD}

\* The number of qualifying texts of a canonical value.
TallyOf(texts, vocabulary, value) ==
    Cardinality({i \in Qualifying(texts, vocabulary) : texts[i].closest = value})

\* The map texts of the window.
MapObservations == map_texts(Frames(window))

\* Every mode text of the window, and the MODE_WINDOW most recent of them.
ModeObservations == collect_texts(Frames(window), FALSE, 1, Len(Frames(window)))

RecentModeObservations ==
    LET all == ModeObservations
        k == IF Len(all) < MODE_WINDOW THEN Len(all) ELSE MODE_WINDOW
    IN  [i \in 1..k |-> all[Len(all) - k + i]]

MapTally(m) == TallyOf(MapObservations, maps, m)
ModeTally(m) == TallyOf(RecentModeObservations, modes, m)

\* The pass has run (to a value or to an exception).
PassRan(pass) == \E i \in DOMAIN v_passes : v_passes[i] = pass

\* The pass is the last that ran: it has just returned or raised.
JustRan(pass) == v_passes /= <<>> /\ v_passes[Len(v_passes)] = pass

MapResolved == JustRan("map") /\ v_raised /= "NoMap"
ModeResolved == JustRan("mode") /\ v_raised /= "NoMode"

MapWarnings == SelectSeq(v_log, LAMBDA l : l.pass = "map")
ModeWarnings == SelectSeq(v_log, LAMBDA l : l.pass = "mode")

IsPrefix(a, b) == Len(a) <= Len(b) /\ a = SubSeq(b, 1, Len(a))

\* C14: map resolution raises NoMap exactly when no map text of the window
\* reaches the vocabulary at the threshold, and then the construction is
\* over: no later pass runs, mode, rounds, teams and kills stay unresolved
\* and no game results.
C14_NoMapAborts ==
    /\ JustRan("map") =>
          ((v_raised = "NoMap") <=> (Qualifying(MapObservations, maps) = {}))
    /\ v_raised = "NoMap" =>
          /\ v_pc = "raised"
          /\ v_passes = <<"map">>
          /\ v_game.map = None /\ v_game.game_mode = None
          /\ v_game.rounds = None /\ v_game.teams = None
    /\ v_pc = "done" => (v_raised = "none" /\ v_game.map /= None)

\* C14 witness: NoMap was raised for a window with map texts, none of them
\* qualifying, whose mode texts would have resolved.
C14_Witness ==
    /\ v_raised = "NoMap"
    /\ MapObservations /= <<>>
    /\ Qualifying(ModeObservations, modes) /= {}

\* C15: for a non-empty tally, map resolution returns a canonical value
\* whose number of qualifying texts is positive and exceeded by no other
\* value's; texts below the threshold count for nothing.
C15_MapIsMostCommon ==
    MapResolved =>
        /\ v_game.map /= None
        /\ v_game.map[1] \in maps
        /\ MapTally(v_game.map[1]) > 0
        /\ \A m \in maps : MapTally(m) <= MapTally(v_game.map[1])

\* C15 witness: 7 texts of Ascent and 3 of Bind resolved to Ascent.
C15_Witness ==
    /\ MapResolved
    /\ v_game.map = Some("Ascent")
    /\ MapTally("Ascent") = 7
    /\ MapTally("Bind") = 3

\* C16: map resolution logs 'Got multiple matching maps' exactly when another
\* canonical value has a tally above a quarter of the winner's
\* (4 * second > winner), and returns the winner without raising either way.
C16_AmbiguityWarning ==
    MapResolved =>
        /\ v_game.map /= None
        /\ Len(MapWarnings) <= 1
        /\ (MapWarnings /= <<>>) <=>
              (\E m \in maps \ {v_game.map[1]} :
                  AMBIGUITY * MapTally(m) > MapTally(v_game.map[1]))

\* C16 witness: 7 against 3 was warned about.
C16_Witness ==
    /\ MapResolved
    /\ MapTally(v_game.map[1]) = 7
    /\ \E m \in maps \ {v_game.map[1]} : MapTally(m) = 3
    /\ MapWarnings /= <<>>

\* C17 as stated: mode resolution logs a warning whenever another mode has a
\* tally above a quarter of the winner's.
C17_ModeWarnsLikeMap ==
    (/\ ModeResolved
     /\ \E m \in modes \ {v_game.game_mode[1]} :
           AMBIGUITY * ModeTally(m) > ModeTally(v_game.game_mode[1]))
    => ModeWarnings /= <<>>

\* C17 amended: mode resolution logs no consistency warning, whatever the
\* tally of the runner-up, and returns the mode with the highest tally.
C17_ModeNeverWarns ==
    /\ ModeWarnings = <<>>
    /\ v_game.game_mode /= None => v_game.game_mode[1] \in modes
    /\ ModeResolved =>
          /\ v_game.game_mode /= None
          /\ \A m \in modes : ModeTally(m) <= ModeTally(v_game.game_mode[1])

\* C17 witness: a mode was resolved although the runner-up had more than a
\* quarter of its tally.
C17_Witness ==
    /\ ModeResolved
    /\ \E m \in modes \ {v_game.game_mode[1]} :
          AMBIGUITY * ModeTally(m) > ModeTally(v_game.game_mode[1])
    /\ ModeWarnings = <<>>

\* C18: mode resolution depends only on the 50 most recent mode texts: NoMode
\* is raised exactly when none of them qualifies, even if earlier ones would,
\* and otherwise the winner has the highest tally among those 50.
C18_ModeUsesRecentTexts ==
    JustRan("mode") =>
        /\ (v_raised = "NoMode") <=> (Qualifying(RecentModeObservations, modes) = {})
        /\ v_raised /= "NoMode" =>
              /\ v_game.game_mode /= None
              /\ ModeTally(v_game.game_mode[1]) > 0
              /\ \A m \in modes : ModeTally(m) <= ModeTally(v_game.game_mode[1])

\* C18 witness: NoMode was raised although a mode text older than the 50
\* most recent qualifies.
C18_Witness ==
    /\ v_raised = "NoMode"
    /\ Len(ModeObservations) > MODE_WINDOW
    /\ Qualifying(ModeObservations, modes) /= {}

\* C19: the duration of a game is the end of its last round, whatever the
\* timestamp of the last frame of the window.
C19_DurationIsLastRoundEnd ==
    v_game.duration /= None =>
        /\ v_game.rounds /= None
        /\ v_game.duration[1] = v_game.rounds[1][Len(v_game.rounds[1])].end

\* C19 witness: a constructed game whose window goes on after the end of the
\* last round.
C19_Witness ==
    /\ v_pc = "done"
    /\ Frames(window)[Len(Frames(window))].timestamp > v_game.duration[1]

\* The passes of a construction that runs to its end, for the rounds found.
ExpectedPasses ==
    <<"map", "mode", "rounds", "teams">>
        \o (IF v_game.rounds = None THEN <<>>
            ELSE [i \in DOMAIN v_game.rounds[1] |-> "kills"])
        \o <<"performance">>

\* C20: the passes run in the order map, mode, rounds, roster, kills of each
\* round, performance; when the performance pass has run the rounds are
\* resolved and every round has its kills attached.
C20_PassOrder ==
    /\ IsPrefix(v_passes, ExpectedPasses)
    /\ PassRan("performance") =>
          /\ v_game.rounds /= None
          /\ \A i \in DOMAIN v_game.rounds[1] : v_game.rounds[1][i].kills /= None
          /\ v_game.teams[1].performance = Some(Len(v_game.rounds[1]))

\* C20 witness: a game of two rounds was constructed.
C20_Witness ==
    /\ v_pc = "done"
    /\ Len(v_game.rounds[1]) = 2
    /\ v_passes = <<"map", "mode", "rounds", "teams", "kills", "kills", "performance">>

\* ------------------------------------------------- segmenter, continued
\* The most recent call was on_frame with a start marker that arrived at most
\* the grace period after the first buffered frame of a game in progress.
StartWithinGrace ==
    /\ last_call.op = "on_frame"
    /\ last_call.pre_have
    /\ last_call.pre_frames /= <<>>
    /\ last_call.frame[1].your_squad
    /\ last_call.frame[1].timestamp - last_call.pre_frames[1].timestamp <= RESTART_GRACE

\* The call left the match as it was but for the frame appended to the buffer.
OnlyAppended ==
    /\ NewNotified = <<>>
    /\ have_current_game
    /\ current_key = last_call.pre_key
    /\ games = last_call.pre_games
    /\ frames = Append(last_call.pre_frames, last_call.frame[1])

\* C21 as stated (for the calls that raise nothing): a start marker within
\* the grace period does not finalize the match, leaves the key, notifies
\* nothing, and only appends the frame to the buffer.
C21_StartWithinGraceOnlyAppends ==
    (StartWithinGrace /\ last_call.raised = "none") => OnlyAppended

\* C21 amended: a start marker within the grace period (10 inclusive) on a
\* frame that carries no end marker does not finalize the match, leaves the
\* key, notifies nothing and raises nothing; the frame is appended to the
\* buffer.
C21_StartWithinGraceNoEndMarker ==
    (StartWithinGrace /\ ~last_call.frame[1].apex_play_menu)
    => (last_call.raised = "none" /\ OnlyAppended)

\* C21 witness: a start marker exactly 10 after the first buffered frame.
C21_Witness ==
    /\ StartWithinGrace
    /\ ~last_call.frame[1].apex_play_menu
    /\ last_call.frame[1].timestamp - last_call.pre_frames[1].timestamp = RESTART_GRACE
    /\ Len(frames) > MIN_FRAMES

\* The windows emitted so far, in order.
Windows ==
    LET done == CompletedIn(notified)
    IN  [i \in DOMAIN done |-> done[i].game.frames]

\* The positions in the stream of the frames of a window.
Positions(w) == {w[j].index : j \in DOMAIN w}

\* C22: every emitted window is a contiguous run of the stream, in order,
\* that begins with a start marker and holds no end marker; the windows of
\* different matches are disjoint; a frame without start marker received
\* while no match is in progress is in no window.
C22_WindowsAreContiguousRuns ==
    /\ \A i \in DOMAIN Windows :
          LET w == Windows[i]
          IN  /\ w[1].your_squad
              /\ \A j \in DOMAIN w : ~w[j].apex_play_menu
              /\ \A j \in 1..(Len(w) - 1) : w[j + 1].index = w[j].index + 1
    /\ \A i \in DOMAIN Windows : \A k \in DOMAIN Windows :
          i /= k => Positions(Windows[i]) \cap Positions(Windows[k]) = {}
    /\ (/\ last_call.op = "on_frame"
        /\ ~last_call.pre_have
        /\ ~last_call.frame[1].your_squad)
       => /\ frames = <<>>
          /\ \A i \in DOMAIN Windows :
                last_call.frame[1].index \notin Positions(Windows[i])

\* C24: with keep_games the games list is, in order, the sequence of games
\* delivered to the 'match complete' listeners; without it the list stays
\* None.
C24_GamesListMirrorsDeliveries ==
    /\ (games = None) <=> (last_call.pre_games = None)
    /\ games /= None =>
          games[1] = [i \in DOMAIN CompletedIn(notified) |->
                         CompletedIn(notified)[i].game]

\* C24 witness: two different games were delivered and kept.
C24_Witness ==
    /\ games /= None
    /\ Len(games[1]) = 2
    /\ games[1][1] /= games[1][2]
    /\ Len(CompletedIn(notified)) = 2

\* ------------------------------------------------- resolver, continued
\* C23: won is the last round's won when that is resolved; otherwise, with a
\* final score, TRUE exactly when the first score is strictly greater than
\* the second; otherwise None.
C23_WonFromLastRoundOrScore ==
    v_pc = "done" =>
        LET last == v_game.rounds[1][Len(v_game.rounds[1])]
            score == v_game.final_score
        IN  /\ last.won /= None => v_game.won = last.won
            /\ (last.won = None /\ score /= None) =>
                  /\ v_game.won /= None
                  /\ v_game.won[1] <=> (score[1][1] > score[1][2])
            /\ (last.won = None /\ score = None) => v_game.won = None

\* C23 witness: no result for the last round and an equal final score gave
\* won = FALSE.
C23_Witness ==
    /\ v_pc = "done"
    /\ v_game.rounds[1][Len(v_game.rounds[1])].won = None
    /\ v_game.final_score = Some(<<6, 6>>)
    /\ v_game.won = Some(FALSE)

\* The position among the map texts of the first qualifying text of m
\* (0 when there is none).
FirstQualifying(m) ==
    LET at == {i \in Qualifying(MapObservations, maps) :
                  MapObservations[i].closest = m}
    IN  IF at = {} THEN 0 ELSE CHOOSE i \in at : \A k \in at : i <= k

\* C25: when several canonical values tie for the highest tally, map
\* resolution returns the one whose first qualifying text came earliest.
C25_TieGoesToEarliest ==
    MapResolved =>
        \A m \in maps :
            (m /= v_game.map[1] /\ MapTally(m) = MapTally(v_game.map[1]))
            => FirstQualifying(v_game.map[1]) < FirstQualifying(m)

\* C25 witness: Bind and Ascent tied, Bind was seen first and was returned.
C25_Witness ==
    /\ MapResolved
    /\ v_game.map = Some("Bind")
    /\ MapTally("Ascent") = MapTally("Bind")
    /\ FirstQualifying("Bind") < FirstQualifying("Ascent")

====
